---------------------------- MODULE Spec2Model ----------------------------
(***************************************************************************)
(* Model of lib/socketio-auth.js: the authentication gate that socketIOAuth *)
(* installs on every namespace of a socket.io server.                      *)
(*                                                                         *)
(* A socket is one client's registration in one namespace.  It is named by *)
(* its qualified id, namespace name + "#" + client id, written here as a   *)
(* sequence of one-character strings so that rootSocketId is computed the  *)
(* way the code computes it (indexOf / substring).                         *)
(*                                                                         *)
(* JavaScript runs each handler to completion, so every handler is one     *)
(* action.  The verification predicate (config.authenticate) is opaque: it *)
(* is invoked by AuthMessage and calls back later, in Resolve, with an     *)
(* (err, success) pair it chooses.  Timers are abstract: an armed timer    *)
(* may fire at any later step.  A closed socket does not join again.       *)
(***************************************************************************)
EXTENDS Integers, Sequences, FiniteSets, TLC

VARIABLES
    config,      \* cleanedConfig: [timeout]
    state,       \* per socket: "new" (not yet connected), "open", "closed"
    sockets,     \* nsp.sockets: per namespace, the open sockets in join order
    connected,   \* nsp.connected: per namespace, key (an id) -> socket or NoSocket
    auth,        \* socket.auth: "undefined", "false", "true"
    listening,   \* whether the 'authentication' listener is installed
    timer,       \* the setTimeout of setupTimeout: "unset", "armed", "fired"
    calls,       \* predicate invocations whose callback has not run yet
    acks,        \* 'unauthorized' emits whose acknowledgment has not arrived
    events,      \* per socket, the events emitted to it, in order
    closedBy,    \* how the socket was closed ("" while it is not)
    authMsgs,    \* per socket, 'authentication' messages received
    root         \* one evaluation of rootSocketId: [arg, done, res]

vars == <<config, state, sockets, connected, auth, listening, timer, calls,
          acks, events, closedBy, authMsgs, root>>

----------------------------------------------------------------------------
(* Bounds *)

\* At most this many 'authentication' messages are sent in a behaviour.
MaxAuthMsgs == 2

\* The identifiers rootSocketId is evaluated on have at most this many
\* characters.
MaxIdLen == 3

\* config.timeout defaults to this many milliseconds.
DefaultTimeout == 1000

----------------------------------------------------------------------------
(* Identifiers *)

Namespaces == { <<"/", "a">>, <<"/", "b">> }

Clients == { <<"X">>, <<"Y">> }

\* The order in which _.each visits io.nsps.
NspOrder == << <<"/", "a">>, <<"/", "b">> >>

\* socket.id of client c's socket in namespace n.
SocketIdOf(n, c) == n \o <<"#">> \o c

\* The namespaces each client joins: X joins /a and /b, Y joins /a.
Joins == { << <<"/", "a">>, <<"X">> >>, << <<"/", "b">>, <<"X">> >>,
           << <<"/", "a">>, <<"Y">> >> }

SocketIds == { SocketIdOf(j[1], j[2]) : j \in Joins }

\* socket.nsp of the socket named id.
NspOf(id) == CHOOSE n \in Namespaces : \E c \in Clients : SocketIdOf(n, c) = id

\* The value of a lookup that finds nothing (JavaScript's undefined).
NoSocket == << >>

----------------------------------------------------------------------------
(* rootSocketId *)

\* String.prototype.indexOf: the 0-based index of the first ch, or -1.
IndexOf(s, ch) ==
    LET hits == { i \in 1..Len(s) : s[i] = ch }
    IN  IF hits = {} THEN -1
        ELSE (CHOOSE i \in hits : \A j \in hits : i <= j) - 1

\* String.prototype.substring(from): the characters from 0-based index from.
Substring(s, from) == SubSeq(s, from + 1, Len(s))

rootSocketId(socketId) == Substring(socketId, IndexOf(socketId, "#") + 1)

\* Faulty variant: sockets are matched on their qualified id, not on their root id.
findWhereQualified(list, socketId) ==
    IF \E i \in 1..Len(list) : list[i] = socketId THEN socketId ELSE NoSocket

\* Faulty variant: the predicate is not applied; the list's first socket is
\* returned.
findWhereFirst(list, socketId) ==
    IF Len(list) = 0 THEN NoSocket ELSE list[1]

\* _.findWhere(nsp.sockets, predicate): the first socket of the list whose
\* root id equals that of socketId, or NoSocket.
findWhere(list, socketId) ==
    LET hits == { i \in 1..Len(list) :
                    rootSocketId(list[i]) = rootSocketId(socketId) }
    IN  IF hits = {} THEN NoSocket
        ELSE list[CHOOSE i \in hits : \A j \in hits : i <= j]

----------------------------------------------------------------------------
(* Configuration *)

\* The values config.timeout is given: absent, a number, 'none'.  Time is
\* abstract (an armed timer fires at some later step), so one number stands
\* for all that are not 0.
Undefined == [kind |-> "undefined", ms |-> 0]
Num(n)    == [kind |-> "number", ms |-> n]
None      == [kind |-> "none", ms |-> 0]

TimeoutInputs == { Undefined, Num(0), None }

Truthy(v) == v.kind = "none" \/ (v.kind = "number" /\ v.ms # 0)

cleanConfig(timeout) ==
    [timeout |-> IF Truthy(timeout) THEN timeout ELSE Num(DefaultTimeout)]

----------------------------------------------------------------------------
(* The predicate's outcomes *)

\* err: null, Error("bad token"), and an error value that has no message.
NoError      == [truthy |-> FALSE, message |-> "undefined"]
ErrBadToken  == [truthy |-> TRUE, message |-> "bad token"]
ErrNoMessage == [truthy |-> TRUE, message |-> "undefined"]

ErrValues == { NoError, ErrBadToken, ErrNoMessage }

AuthenticatedEvent == [name |-> "authenticated", payload |-> "true"]
UnauthorizedEvent(message) == [name |-> "unauthorized", payload |-> message]

----------------------------------------------------------------------------
(* The handlers *)

\* No evaluation of rootSocketId is under way.
RootIdle == [arg |-> << >>, done |-> FALSE, res |-> << >>]

\* The server after socketIOAuth(io, config).
InitGate ==
    /\ config \in { cleanConfig(t) : t \in TimeoutInputs }
    /\ state = [s \in SocketIds |-> "new"]
    /\ sockets = [n \in Namespaces |-> << >>]
    /\ connected = [n \in Namespaces |-> [k \in SocketIds |-> NoSocket]]
    /\ auth = [s \in SocketIds |-> "undefined"]
    /\ listening = [s \in SocketIds |-> FALSE]
    /\ timer = [s \in SocketIds |-> "unset"]
    /\ calls = [s \in SocketIds |-> 0]
    /\ acks = [s \in SocketIds |-> 0]
    /\ events = [s \in SocketIds |-> << >>]
    /\ closedBy = [s \in SocketIds |-> ""]
    /\ authMsgs = [s \in SocketIds |-> 0]

Init == InitGate /\ root = RootIdle

\* The values the state takes.
TypeOK ==
    /\ config \in { cleanConfig(t) : t \in TimeoutInputs }
    /\ state \in [SocketIds -> {"new", "open", "closed"}]
    /\ \A n \in Namespaces :
          /\ \A i \in 1..Len(sockets[n]) :
                sockets[n][i] \in SocketIds /\ state[sockets[n][i]] = "open"
          /\ connected[n] \in [SocketIds -> SocketIds \cup {NoSocket}]
    /\ auth \in [SocketIds -> {"undefined", "false", "true"}]
    /\ listening \in [SocketIds -> BOOLEAN]
    /\ timer \in [SocketIds -> {"unset", "armed", "fired"}]
    /\ calls \in [SocketIds -> 0..MaxAuthMsgs]
    /\ acks \in [SocketIds -> 0..MaxAuthMsgs]
    /\ \A s \in SocketIds :
          /\ Len(events[s]) <= MaxAuthMsgs
          /\ \A i \in 1..Len(events[s]) :
                events[s][i].name \in {"authenticated", "unauthorized"}
    /\ closedBy \in [SocketIds -> {"", "unauthorized", "transport close",
                                    "server namespace disconnect"}]
    /\ authMsgs \in [SocketIds -> 0..MaxAuthMsgs]
    /\ root = RootIdle

\* Faulty variant: the listener leaves the new socket in nsp.connected.
forbidConnectionsKeep(conn, socketAuth, id) == conn

\* Faulty variant: the listener deletes the entry whatever socket.auth is.
forbidConnectionsAlways(conn, socketAuth, id) == [conn EXCEPT ![id] = NoSocket]

\* forbidConnections' 'connect' listener: the new value of nsp.connected.
forbidConnections(conn, socketAuth, id) ==
    IF socketAuth # "true" THEN [conn EXCEPT ![id] = NoSocket] ELSE conn

\* Faulty variant: the 'none' sentinel is not honoured.
setupTimeoutAlways(timeout, t) == "armed"

\* setupTimeout: the new value of the socket's timer.
setupTimeout(timeout, t) ==
    IF timeout.kind = "none" THEN t ELSE "armed"

\* A client joins a namespace: the server registers the socket (nsp.sockets,
\* nsp.connected[socket.id]) and emits 'connect', then 'connection'.
Connect(n, c) ==
    LET id == SocketIdOf(n, c)
        registered == [connected[n] EXCEPT ![id] = id]
    IN  /\ <<n, c>> \in Joins
        /\ state[id] = "new"
        /\ state' = [state EXCEPT ![id] = "open"]
        /\ sockets' = [sockets EXCEPT ![n] = Append(@, id)]
        /\ connected' = [connected EXCEPT
                           ![n] = forbidConnections(registered, auth[id], id)]
        /\ IF auth[id] = "true"
           THEN UNCHANGED <<auth, listening, timer>>
           ELSE /\ auth' = [auth EXCEPT ![id] = "false"]
                /\ listening' = [listening EXCEPT ![id] = TRUE]
                /\ timer' = [timer EXCEPT
                               ![id] = setupTimeout(config.timeout, @)]
        /\ UNCHANGED <<root, config, calls, acks, events, closedBy, authMsgs>>

RECURSIVE SumOver(_, _)
SumOver(f, S) ==
    IF S = {} THEN 0
    ELSE LET x == CHOOSE y \in S : TRUE IN f[x] + SumOver(f, S \ {x})

\* The client sends 'authentication' on an open socket: authenticateSocket
\* invokes config.authenticate, which calls back later.
AuthMessage(id) ==
    /\ state[id] = "open"
    /\ listening[id]
    /\ SumOver(authMsgs, SocketIds) < MaxAuthMsgs
    /\ authMsgs' = [authMsgs EXCEPT ![id] = @ + 1]
    /\ calls' = [calls EXCEPT ![id] = @ + 1]
    /\ UNCHANGED <<root, config, state, sockets, connected, auth, listening, timer,
                   acks, events, closedBy>>

\* Faulty variant: in its own namespace the authenticating socket is used
\* without looking it up in nsp.sockets.
authConnectionsStale(st, n, socketId) ==
    LET socket == IF NspOf(socketId) = n THEN socketId
                  ELSE findWhere(sockets[n], socketId)
    IN  IF socket # NoSocket
        THEN [st EXCEPT !.auth[socket] = "true",
                        !.events[socket] = Append(@, AuthenticatedEvent),
                        !.connected[n][socketId] = socket]
        ELSE st

\* authConnections on namespace n; st is [auth, connected, events, acks].
authConnections(st, n, socketId) ==
    LET socket == findWhere(sockets[n], socketId)
    IN  IF socket # NoSocket
        THEN [st EXCEPT !.auth[socket] = "true",
                        !.events[socket] = Append(@, AuthenticatedEvent),
                        !.connected[n][socketId] = socket]
        ELSE st

\* disconnectConnections on namespace n.
disconnectConnections(st, n, socketId, message) ==
    LET socket == findWhere(sockets[n], socketId)
    IN  IF socket # NoSocket
        THEN [st EXCEPT !.events[socket] = Append(@, UnauthorizedEvent(message)),
                        !.acks[socket] = @ + 1]
        ELSE st

\* The message of the 'unauthorized' payload.
FailureMessage(err) ==
    IF err.truthy THEN err.message ELSE "Authentication failure"

\* Faulty variant: the iteration ends at the first namespace that holds no
\* socket of the client.
RECURSIVE EachAuthStopAtMiss(_, _, _)
EachAuthStopAtMiss(st, i, socketId) ==
    IF i > Len(NspOrder) THEN st
    ELSE IF findWhere(sockets[NspOrder[i]], socketId) = NoSocket THEN st
    ELSE EachAuthStopAtMiss(authConnections(st, NspOrder[i], socketId),
                            i + 1, socketId)

\* _.each(io.nsps, ...) over the namespaces from index i on.
RECURSIVE EachAuth(_, _, _)
EachAuth(st, i, socketId) ==
    IF i > Len(NspOrder) THEN st
    ELSE EachAuth(authConnections(st, NspOrder[i], socketId), i + 1, socketId)

RECURSIVE EachDisconnect(_, _, _, _)
EachDisconnect(st, i, socketId, message) ==
    IF i > Len(NspOrder) THEN st
    ELSE EachDisconnect(disconnectConnections(st, NspOrder[i], socketId, message),
                        i + 1, socketId, message)

\* The callback that authenticateSocket hands to config.authenticate.
authenticateCallback(st, socketId, err, success) ==
    IF success
    THEN EachAuth(st, 1, socketId)
    ELSE EachDisconnect(st, 1, socketId, FailureMessage(err))

\* The predicate calls back with (err, success).
Resolve(id, err, success) ==
    LET st == authenticateCallback(
                  [auth |-> auth, connected |-> connected,
                   events |-> events, acks |-> acks],
                  id, err, success)
    IN  /\ calls[id] > 0
        /\ calls' = [calls EXCEPT ![id] = @ - 1]
        /\ auth' = st.auth
        /\ connected' = st.connected
        /\ events' = st.events
        /\ acks' = st.acks
        /\ UNCHANGED <<root, config, state, sockets, listening, timer, closedBy,
                       authMsgs>>

\* The server closes a socket (socket.disconnect, or the transport closing):
\* nothing when it is not open, else the socket leaves nsp.sockets and
\* nsp.connected[socket.id].
Close(id, reason) ==
    IF state[id] # "open"
    THEN UNCHANGED <<state, sockets, connected, closedBy>>
    ELSE LET n == NspOf(id)
         IN  /\ state' = [state EXCEPT ![id] = "closed"]
             /\ sockets' = [sockets EXCEPT
                   ![n] = SelectSeq(@, LAMBDA x : x # id)]
             /\ connected' = [connected EXCEPT ![n][id] = NoSocket]
             /\ closedBy' = [closedBy EXCEPT ![id] = reason]

\* Faulty variant: the timer's callback disconnects only authenticated sockets.
TimerDisconnectsInverted(socketAuth) == socketAuth = "true"

\* Faulty variant: the callback disconnects only a socket whose flag was
\* never written (socket.auth === undefined).
TimerDisconnectsUndefinedOnly(socketAuth) == socketAuth = "undefined"

\* Whether the timer's callback disconnects the socket.
TimerDisconnects(socketAuth) == socketAuth # "true"

\* The callback of setupTimeout's setTimeout.
TimerFire(id) ==
    /\ timer[id] = "armed"
    /\ timer' = [timer EXCEPT ![id] = "fired"]
    /\ IF TimerDisconnects(auth[id])
       THEN Close(id, "unauthorized")
       ELSE UNCHANGED <<state, sockets, connected, closedBy>>
    /\ UNCHANGED <<root, config, auth, listening, calls, acks, events, authMsgs>>

\* The client acknowledges an 'unauthorized' event: socket.disconnect().
Ack(id) ==
    /\ state[id] = "open"
    /\ acks[id] > 0
    /\ acks' = [acks EXCEPT ![id] = @ - 1]
    /\ Close(id, "server namespace disconnect")
    /\ UNCHANGED <<root, config, auth, listening, timer, calls, events, authMsgs>>

\* The client leaves, or its transport closes.
ClientDisconnect(id) ==
    /\ state[id] = "open"
    /\ Close(id, "transport close")
    /\ UNCHANGED <<root, config, auth, listening, timer, calls, acks, events,
                   authMsgs>>

Next ==
    \/ \E n \in Namespaces, c \in Clients : Connect(n, c)
    \/ \E id \in SocketIds : AuthMessage(id)
    \/ \E id \in SocketIds, err \in ErrValues, success \in BOOLEAN :
          Resolve(id, err, success)
    \/ \E id \in SocketIds : TimerFire(id)
    \/ \E id \in SocketIds : Ack(id)
    \/ \E id \in SocketIds : ClientDisconnect(id)

Spec == Init /\ [][Next]_vars

\* setTimeout's callback runs once its delay has passed.
FairSpec == Spec /\ \A id \in SocketIds : WF_vars(TimerFire(id))

----------------------------------------------------------------------------
(* rootSocketId on its own: one identifier is drawn and the function is    *)
(* applied to it.                                                          *)

\* The characters of identifiers: of namespace names, the delimiter, of
\* client ids.
Alphabet == {"/", "a", "#", "X"}

\* The identifiers of at most MaxIdLen characters.
QualifiedIds == UNION { [1..k -> Alphabet] : k \in 0..MaxIdLen }

RootInit ==
    /\ InitGate
    /\ \E id \in QualifiedIds :
          root = [arg |-> id, done |-> FALSE, res |-> << >>]

ApplyRootSocketId ==
    /\ ~root.done
    /\ root' = [root EXCEPT !.done = TRUE, !.res = rootSocketId(root.arg)]
    /\ UNCHANGED <<config, state, sockets, connected, auth, listening, timer,
                   calls, acks, events, closedBy, authMsgs>>

RootNext == ApplyRootSocketId

RootSpec == RootInit /\ [][RootNext]_vars

----------------------------------------------------------------------------
(* Vocabulary of the properties *)

\* How many events named name the log holds.
Count(log, name) == Len(SelectSeq(log, LAMBDA e : e.name = name))

\* Socket s is held by namespace n's nsp.connected, under whatever key.
InSet(n, s) == \E k \in SocketIds : connected[n][k] = s

\* The sockets of the session (client) that s belongs to.
SameSession(s) == { t \in SocketIds : rootSocketId(t) = rootSocketId(s) }

\* No socket of s's session has received an 'authentication' message.
NoAuthMsg(s) == \A t \in SameSession(s) : authMsgs[t] = 0

\* The session of s has been rejected: the failure fan-out reached it.
Rejected(s) == \E t \in SameSession(s) : Count(events[t], "unauthorized") > 0

\* The authentication status of a connection, read off the code's state:
\* the auth flag, else whether the connection was refused or timed out.
Status(s) ==
    IF auth[s] = "true" THEN "authenticated"
    ELSE IF Count(events[s], "unauthorized") > 0 \/ closedBy[s] = "unauthorized"
         THEN "rejected"
         ELSE "pending"

SockAX == SocketIdOf(<<"/", "a">>, <<"X">>)
SockBX == SocketIdOf(<<"/", "b">>, <<"X">>)
SockAY == SocketIdOf(<<"/", "a">>, <<"Y">>)

----------------------------------------------------------------------------
(* C1: in every reachable state every socket held by a namespace's         *)
(* nsp.connected has its auth flag set; a socket that has connected and is *)
(* not authenticated is in no namespace's nsp.connected.                   *)
C1_NoUnauthenticatedMember ==
    \A n \in Namespaces, k \in SocketIds :
        connected[n][k] # NoSocket => auth[connected[n][k]] = "true"

\* A connected, unauthenticated socket beside an authenticated member.
C1_Witness ==
    /\ state[SockAY] = "open" /\ auth[SockAY] = "false"
    /\ ~InSet(<<"/", "a">>, SockAY)
    /\ InSet(<<"/", "a">>, SockAX)

(* C3: when the predicate calls back with success for a socket, then after *)
(* that one fan-out every open socket of the same session is held by the   *)
(* nsp.connected of its own namespace.                                     *)
C3_SuccessRestoresEveryNamespace ==
    [][\A id \in SocketIds, err \in ErrValues :
          Resolve(id, err, TRUE) =>
             \A s \in SameSession(id) :
                 state[s] = "open" => InSet(NspOf(s), s)']_vars

\* X authenticated through /a and is a member of /a and of /b.
C3_Witness ==
    /\ state[SockAX] = "open" /\ state[SockBX] = "open"
    /\ authMsgs[SockAX] = 1 /\ authMsgs[SockBX] = 0
    /\ InSet(<<"/", "a">>, SockAX) /\ InSet(<<"/", "b">>, SockBX)

(* C8: with config.timeout 'none', which cleanConfig keeps, no socket ever *)
(* has a timer and none is ever closed with reason "unauthorized".         *)
C8_NoneNeverTimesOut ==
    /\ cleanConfig(None).timeout = None
    /\ config.timeout = None =>
          \A s \in SocketIds : timer[s] = "unset" /\ closedBy[s] # "unauthorized"

\* Under 'none', an unauthenticated socket that sent nothing stays open.
C8_Witness ==
    /\ config.timeout = None
    /\ \E s \in SocketIds :
          state[s] = "open" /\ auth[s] = "false" /\ NoAuthMsg(s)
    /\ \E s \in SocketIds : state[s] = "closed"

(* C2: the authentication status of a connection changes only from pending *)
(* (to authenticated or to rejected): no step changes the status of a      *)
(* connection that is authenticated or rejected.                           *)
C2_StatusChangesOnlyFromPending ==
    [][\A s \in SocketIds :
          Status(s)' # Status(s) => Status(s) = "pending"]_vars

(* C4: a connection whose auth flag is set has been sent the               *)
(* 'authenticated' event exactly once.                                     *)
C4_AuthenticatedExactlyOnce ==
    \A s \in SocketIds :
        auth[s] = "true" => Count(events[s], "authenticated") = 1

(* C5: once the failure fan-out has reached a session, no later step sends *)
(* 'authenticated' to one of its connections or adds one of them to a      *)
(* namespace's nsp.connected.                                              *)
C5_NoAuthenticatedAfterFailure ==
    [][\A s \in SocketIds :
          Rejected(s) =>
             /\ Count(events[s], "authenticated")' = Count(events[s], "authenticated")
             /\ \A n \in Namespaces : InSet(n, s)' => InSet(n, s)]_vars

(* C6: a connection that has been sent 'unauthorized' has been sent it     *)
(* exactly once, and is closed or still has its close pending on the       *)
(* event's acknowledgment.                                                 *)
C6_UnauthorizedExactlyOnceThenClosed ==
    \A s \in SocketIds :
        Count(events[s], "unauthorized") > 0 =>
           /\ Count(events[s], "unauthorized") = 1
           /\ state[s] = "closed" \/ acks[s] > 0

(* C7: with a timeout other than 'none', a connection whose session sends  *)
(* no 'authentication' message is eventually closed with reason            *)
(* "unauthorized" (unless the client leaves first), and once its timer has *)
(* fired with no message received it is closed and was sent no event.      *)
C7_TimeoutCloses ==
    /\ [](\A s \in SocketIds :
            (timer[s] = "fired" /\ NoAuthMsg(s)) =>
               /\ closedBy[s] \in {"unauthorized", "transport close"}
               /\ events[s] = << >>)
    /\ \A s \in SocketIds :
          (state[s] = "open" /\ config.timeout # None /\ NoAuthMsg(s))
             ~> (\/ closedBy[s] \in {"unauthorized", "transport close"}
                 \/ ~NoAuthMsg(s))

\* A socket closed by its timer, its session having sent no message.
C7_Witness ==
    \E s \in SocketIds :
        /\ closedBy[s] = "unauthorized" /\ timer[s] = "fired"
        /\ NoAuthMsg(s) /\ events[s] = << >>

(* C9: a callback that reports an error is handled as a failure whatever   *)
(* success value comes with it: it sets no auth flag, adds nothing to any  *)
(* nsp.connected and sends no 'authenticated' event.                       *)
C9_ErrorIsFailure ==
    [][\A id \in SocketIds, err \in ErrValues, success \in BOOLEAN :
          (err.truthy /\ Resolve(id, err, success)) =>
             /\ auth' = auth
             /\ connected' = connected
             /\ \A s \in SocketIds :
                   Count(events[s], "authenticated")'
                      = Count(events[s], "authenticated")]_vars

\* The message the claim expects for err.
ExpectedMessage(err) ==
    IF err.truthy /\ err.message # "undefined"
    THEN err.message
    ELSE "Authentication failure"

(* C10: every 'unauthorized' event a failed callback sends carries the     *)
(* error's message when the error has one, else "Authentication failure";  *)
(* it is never undefined.                                                  *)
C10_FailureMessage ==
    [][\A id \in SocketIds, err \in ErrValues :
          Resolve(id, err, FALSE) =>
             \A s \in SocketIds :
                 events[s]' # events[s] =>
                    LET e == events[s]'[Len(events[s]')]
                    IN  /\ e.name = "unauthorized"
                        /\ e.payload = ExpectedMessage(err)
                        /\ e.payload # "undefined"]_vars

(* C11: the fan-out of a callback for socket id touches only sockets with  *)
(* id's root id: for every socket of another session the step leaves the   *)
(* auth flag, the events sent, the pending acknowledgments and the open    *)
(* state as they were, and adds it to no namespace's nsp.connected,        *)
(* wherever the sockets stand in nsp.sockets.                              *)
C11_OtherSessionsUntouched ==
    [][\A id \in SocketIds, err \in ErrValues, success \in BOOLEAN :
          Resolve(id, err, success) =>
             \A s \in SocketIds \ SameSession(id) :
                 /\ auth'[s] = auth[s]
                 /\ events'[s] = events[s]
                 /\ acks'[s] = acks[s]
                 /\ state'[s] = state[s]
                 /\ \A n \in Namespaces : InSet(n, s)' => InSet(n, s)]_vars

\* Y joined /a before X; X has been authenticated, or refused, and Y has
\* been sent nothing.
C11_Witness ==
    /\ sockets[<<"/", "a">>] = <<SockAY, SockAX>>
    /\ auth[SockAY] = "false" /\ events[SockAY] = << >>
    /\ Len(events[SockAX]) = 2
    /\ Count(events[SockAX], "authenticated") = 1
    /\ Count(events[SockAX], "unauthorized") = 1

\* Socket s belongs to a session that holds an open, authenticated socket.
SessionAuthenticated(s) ==
    \E t \in SameSession(s) : auth[t] = "true" /\ state[t] = "open"

(* C12: no step closes, with the timer's reason "unauthorized", a          *)
(* connection of a session that is authenticated, also when the connection *)
(* is one the session opened in a further namespace after authenticating.  *)
C12_TimerSparesAuthenticatedSession ==
    [][\A s \in SocketIds :
          SessionAuthenticated(s) =>
             (closedBy'[s] = "unauthorized" => closedBy[s] = "unauthorized")]_vars

\* Socket s was refused and its 'unauthorized' is not yet acknowledged.
RejectedUnacknowledged(s) ==
    /\ state[s] = "open"
    /\ Count(events[s], "unauthorized") > 0
    /\ acks[s] > 0

C14_KeyedByOwnId ==
    \A n \in Namespaces, k \in SocketIds :
        connected[n][k] # NoSocket => connected[n][k] = k

(* C15: at most one timer is armed per session at any time.                *)
C15_OneTimerPerSession ==
    \A s \in SocketIds :
        Cardinality({ t \in SameSession(s) : timer[t] = "armed" }) <= 1

\* The 0-based index of the last ch of s, or -1.
LastIndexOf(s, ch) ==
    LET hits == { i \in 1..Len(s) : s[i] = ch }
    IN  IF hits = {} THEN -1
        ELSE (CHOOSE i \in hits : \A j \in hits : j <= i) - 1

(* C16: rootSocketId returns the characters after the last '#' of its      *)
(* argument, and the whole argument when it holds no '#'.                  *)
C16_RootAfterLastDelimiter ==
    root.done =>
       /\ root.res = Substring(root.arg, LastIndexOf(root.arg, "#") + 1)
       /\ LastIndexOf(root.arg, "#") = -1 => root.res = root.arg

\* The sockets of nsp.sockets of namespace n that belong to id's client.
RegistrationsIn(n, id) ==
    { s \in SameSession(id) : \E i \in 1..Len(sockets[n]) : sockets[n][i] = s }

(* C17: when the callback runs, a namespace that lists no socket of the    *)
(* client is left as it was (nsp.connected, and the flag, events, pending  *)
(* acknowledgements and state of each of its sockets), and every namespace *)
(* that does list one receives the event.                                  *)
C17_NamespaceWithoutSocketSkipped ==
    [][\A id \in SocketIds, err \in ErrValues, success \in BOOLEAN :
          Resolve(id, err, success) =>
             \A n \in Namespaces :
                IF RegistrationsIn(n, id) = {}
                THEN /\ connected'[n] = connected[n]
                     /\ \A t \in SocketIds :
                           NspOf(t) = n =>
                              /\ auth'[t] = auth[t]
                              /\ events'[t] = events[t]
                              /\ acks'[t] = acks[t]
                              /\ state'[t] = state[t]
                ELSE \A s \in RegistrationsIn(n, id) :
                        Len(events'[s]) = Len(events[s]) + 1]_vars

\* X never joined /a, where Y waits; the callback for /b#X passed over /a
\* and authenticated /b#X.
C17_Witness ==
    /\ state[SockAX] = "new"
    /\ state[SockAY] = "open"
    /\ auth[SockAY] = "false"
    /\ events[SockAY] = << >>
    /\ \A k \in SocketIds : connected[<<"/", "a">>][k] = NoSocket
    /\ auth[SockBX] = "true"
    /\ events[SockBX] = <<AuthenticatedEvent>>

\* The values of socket.auth.
AuthValues == {"undefined", "false", "true"}

(* C18: on every nsp.connected the program reaches, and for every socket   *)
(* and value of socket.auth, the 'connect' listener of forbidConnections   *)
(* applied twice gives what it gives applied once; it leaves the map as it *)
(* is for an unauthenticated socket that has no entry, and for an          *)
(* authenticated socket; otherwise it removes exactly that socket's entry. *)
C18_ForbidIdempotent ==
    \A n \in Namespaces, id \in SocketIds, a \in AuthValues :
       LET conn == connected[n]
           once == forbidConnections(conn, a, id)
       IN  /\ forbidConnections(once, a, id) = once
           /\ (a # "true" /\ conn[id] = NoSocket) => once = conn
           /\ a = "true" => once = conn
           /\ a # "true" =>
                 /\ once[id] = NoSocket
                 /\ \A k \in SocketIds \ {id} : once[k] = conn[k]

\* /a holds the authenticated /a#X under its own key, and /a#Y has
\* connected, was removed by the listener, and is still unauthenticated.
C18_Witness ==
    /\ auth[SockAX] = "true"
    /\ connected[<<"/", "a">>][SockAX] = SockAX
    /\ state[SockAY] = "open"
    /\ auth[SockAY] = "false"
    /\ connected[<<"/", "a">>][SockAY] = NoSocket

\* Every socket of s's session that was opened has been closed.
SessionClosed(s) ==
    /\ \E t \in SameSession(s) : state[t] = "closed"
    /\ \A t \in SameSession(s) : state[t] # "open"

(* C19: once the sockets of a session are closed, no namespace's           *)
(* nsp.connected has an entry that holds, or is keyed by, a socket of that *)
(* session.                                                                *)
C19_NoStaleEntry ==
    \A s \in SocketIds :
       SessionClosed(s) =>
          \A n \in Namespaces, k \in SocketIds :
             /\ connected[n][k] \notin SameSession(s)
             /\ k \in SameSession(s) => connected[n][k] = NoSocket

(* C20: when the callback of config.authenticate runs for a socket that is *)
(* already closed, that socket receives no event, its flag and its pending *)
(* acknowledgements stay as they are, its namespace's nsp.connected is not *)
(* changed, and no namespace starts to hold it.                            *)
C20_LateResolutionSparesClosed ==
    [][\A id \in SocketIds, err \in ErrValues, success \in BOOLEAN :
          (Resolve(id, err, success) /\ state[id] = "closed") =>
             /\ events'[id] = events[id]
             /\ auth'[id] = auth[id]
             /\ acks'[id] = acks[id]
             /\ connected'[NspOf(id)] = connected[NspOf(id)]
             /\ \A n \in Namespaces : InSet(n, id)' => InSet(n, id)]_vars

\* The timer closed /a#X while its only call of config.authenticate was
\* pending; the call then succeeded: /b#X is authenticated, /a#X received
\* nothing.
C20_Witness ==
    /\ closedBy[SockAX] = "unauthorized"
    /\ authMsgs[SockAX] = 1
    /\ calls[SockAX] = 0
    /\ events[SockAX] = << >>
    /\ auth[SockAX] = "false"
    /\ authMsgs[SockBX] = 0
    /\ events[SockBX] = <<AuthenticatedEvent>>

=============================================================================
